---- MODULE Spec2Model ----
(***************************************************************************)
(* The fiber scheduler and async task bridge of rust_wren                  *)
(* (src/src/modules/scheduler.rs, src/src/modules/timer.rs).               *)
(*                                                                         *)
(* A task is a boxed future: `sleep(ms).await` followed by a resume call   *)
(* into the VM (its continuation).  run_async_loop spawns the queued       *)
(* futures on a single-threaded tokio LocalSet and awaits their join       *)
(* handles.  The executor is modelled by `exec`: what it is polling        *)
(* ("main" is the future of run_async_loop, "task" the spawned task named  *)
(* by `current`, "sched" means it is choosing the next unit).  Time is the *)
(* timer driver's clock: it advances only when no unit is runnable.        *)
(***************************************************************************)
EXTENDS Integers, Sequences, FiniteSets, TLC

\* ---------------------------------------------------------------- bounds
MaxTasks == 2
MaxDelay == 2
MaxCaptures == 2
MaxSigLen == 4
MaxArgs == 2

Tasks == 1..MaxTasks
Delays == 0..MaxDelay

\* ms values Duration::from_secs_f64 does not accept; -1 stands for every
\* negative or non-finite f64 (NaN, infinities), which it treats alike
MalformedDurations == {-1}

\* the Schedulers installed in the user data, in order of installation
Generations == 1..MaxCaptures

\* the handles a Scheduler captures (struct Scheduler, capture_methods)
SchedulerHandles ==
    {"class", "resume1", "resume2", "resume_error", "resume_waiting",
     "has_next", "run_next_scheduled"}

\* the bytes of a signature: a name byte, the placeholder, parentheses, comma
SigBytes == {"T", "_", "(", ")", ","}

\* signatures (CStr bytes) of at most MaxSigLen bytes
Signatures == UNION {[1..n -> SigBytes] : n \in 0..MaxSigLen}

\* argument_count while no CallHandle has been made
NoHandle == -1

\* Args::COUNT of the argument tuples passed to Context::call
ArgCounts == 0..MaxArgs

\* Option::None of `next` / next_item
None == 0

\* the caller of a VM call made by the host itself, outside any task
HostCaller == 0

\* the resume operation a task's continuation calls
Kinds == {"resume", "resume_error"}

\* WrenInterpretResult codes returned by wrenCall / wrenInterpret
WREN_RESULT_SUCCESS == 0
WREN_RESULT_COMPILE_ERROR == 1
WREN_RESULT_RUNTIME_ERROR == 2
ResultCodes == 0..3

VARIABLES
    queue,               \* Scheduler.queue: Vec of task ids, index 1 = Vec index 0
    has_waiting_fibers,  \* Scheduler.has_waiting_fibers
    pc,                  \* host position: idle, spawn, check, await, done, panicked
    next,                \* run_async_loop local `next`
    handles,             \* run_async_loop local `handles` (join handles, by task id)
    idx,                 \* position of `for handle in &mut handles`
    exec,                \* what the executor is polling: "main", "task", or "sched" (choosing)
    current,             \* the task being polled when exec = "task", else None
    nTasks,              \* number of tasks registered so far
    status,              \* per task: none, queued, spawned, sleeping, resuming, finished, panicked
    delay,               \* per task: the ms argument of its sleep
    kind,                \* per task: the resume operation of its continuation
    remaining,           \* per task: time left on its sleep
    parent,              \* per task: the task whose continuation registered it (0: host level)
    pass,                \* per task: first handle of the pass that spawned it
    resumeCount,         \* per task: times its continuation was invoked
    order,               \* task ids in the order their continuations were invoked
    fiberLog,            \* per task: events on its captured fiber handle
    calledMethod,        \* per task: call handle its resume passed to vm.call
    vmActive,            \* callers currently inside a VM call: task ids, HostCaller
    hostOp,              \* the host-level VM call in progress
    runtimeErr,          \* a resume's VM call has returned a runtime error
    vmState,             \* the WrenVM: live, or freed by wrenFreeVM
    captures,            \* Schedulers installed so far; the last one is in the user data
    schedReleased,       \* per Scheduler, per captured handle: wrenReleaseHandle calls
    teardownLog,         \* calls issued against the VM while a Vm is dropped
    signature,           \* CallHandle: the signature it was made from
    argument_count,      \* CallHandle.argument_count (NoHandle: none made yet)
    args_count,          \* Context::call: Args::COUNT of the arguments passed
    callLog,             \* Context::call: what it did to the VM
    callResult,          \* Context::call: its result
    fiberHandle,         \* per task: the WrenHandle its future holds (0: none)
    resumeErrResult,        \* per task: the VM call of its resume returned
                         \* Err(Compile) or Err(Unknown) (observed in ResultSpec only)
    argTypes,            \* SetArgs: the types of the argument tuple
    vecLen,              \* the length of every Vec sent
    argOffset,              \* set_slots: the slot of the first argument
    reserved,            \* the count the sender passed to ensure_slots
    rawContext,          \* RawContext: the VM's API stack and its lists
    slotPc,              \* args, set, returned, read
    readType,            \* GetValue: the type the slot was read as
    readSlot,            \* GetValue: the slot read
    readValue            \* GetValue: the value read

schedVars == <<queue, has_waiting_fibers>>
loopVars == <<pc, next, handles, idx, exec, current>>
taskVars == <<nTasks, status, delay, kind, remaining, parent, pass>>
obsVars == <<resumeCount, order, fiberLog, calledMethod, runtimeErr>>
vmVars == <<vmActive, hostOp>>
lifeVars == <<vmState, captures, schedReleased, teardownLog>>
callVars == <<signature, argument_count, args_count, callLog, callResult>>
handleVars == <<fiberHandle>>
resultVars == <<resumeErrResult>>
slotVars == <<argTypes, vecLen, argOffset, reserved, rawContext, slotPc, readType, readSlot, readValue>>
extVars == <<lifeVars, callVars, handleVars, resultVars, slotVars>>
vars == <<schedVars, loopVars, taskVars, obsVars, vmVars, extVars>>

\* ------------------------------------------------------------ pure parts

\* Vec::insert(0, future)
schedule_task(q, t) == <<t>> \o q

\* mutant: pop takes the element at index 0, the one inserted last
next_item_front(q) ==
    IF q = <<>> THEN [item |-> None, rest |-> q]
    ELSE [item |-> Head(q), rest |-> Tail(q)]

\* Vec::pop: the last element, or None
next_item(q) ==
    IF q = <<>> THEN [item |-> None, rest |-> q]
    ELSE [item |-> q[Len(q)], rest |-> SubSeq(q, 1, Len(q) - 1)]

\* InterpretResultErrorKind::new_from_result
new_from_result(code) ==
    IF code = WREN_RESULT_COMPILE_ERROR THEN "Compile"
    ELSE IF code = WREN_RESULT_RUNTIME_ERROR THEN "Runtime"
    ELSE IF code = WREN_RESULT_SUCCESS THEN "Ok"
    ELSE "Unknown"

\* mutant: the match arm names the wrong error kind
ResumePanicsOnCompile(code) == new_from_result(code) = "Compile"

\* mutant: `if let Err(_) = result`, every error result panics
ResumePanicsOnAnyErr(code) == new_from_result(code) # "Ok"

\* _resume: panics exactly on Err(Runtime)
ResumePanics(code) == new_from_result(code) = "Runtime"

\* the call handle resume_with_arg picks: resume1 without an argument,
\* resume2 with one; resume_error passes Some(error string)
ResumeMethod(k) ==
    IF k = "resume" THEN "resume1" ELSE "resume2"

\* mutant: the handle is released before it is written to the slot
ReleaseBeforeUse(log) == log \o <<"release", "use">>

\* resume_with_arg on the fiber handle: written to a slot, released, then the call
ResumeHandleEvents(log) == log \o <<"use", "release">>

\* mutant: the loop breaks when the queue gave nothing more to spawn
LoopBreaksOnEmptyQueue(hs) == next = None

\* mutant: the break is missing
LoopBreaksNever(hs) == FALSE

\* `if handles.is_empty() { break; }`
LoopBreaks(hs) == hs = <<>>

\* mutant: the queue is not looked at again after a pass
NoNextAfterPass(q) == [item |-> None, rest |-> q]

\* `next = self.next_item();` after `handles.clear()`
NextAfterPass(q) == next_item(q)

\* mutant: a unit is polled while another one is running (a threaded executor)
ExecutorAlwaysFree(e) == TRUE

\* the executor polls one unit at a time
ExecutorFree(e) == e = "sched"

\* `.skip_while(|byte| **byte != b'(')`
RECURSIVE skip_while_not_paren(_)
skip_while_not_paren(bytes) ==
    IF bytes = <<>> THEN <<>>
    ELSE IF Head(bytes) # "(" THEN skip_while_not_paren(Tail(bytes))
    ELSE bytes

\* `.filter(|byte| **byte == b'_').for_each(|_| argument_count += 1)`
RECURSIVE count_underscores(_)
count_underscores(bytes) ==
    IF bytes = <<>> THEN 0
    ELSE (IF Head(bytes) = "_" THEN 1 ELSE 0) + count_underscores(Tail(bytes))

\* mutant: the skip_while is missing, every underscore is counted
count_every_underscore(sig) == count_underscores(sig)

\* CallHandle::new_from_signature: the argument_count it records
signature_argument_count(sig) == count_underscores(skip_while_not_paren(sig))

\* mutant: the arity check is missing
arity_unchecked(method_count, passed) == TRUE

\* `method.get_argument_count() == Args::COUNT`
arity_matches(method_count, passed) == method_count = passed

\* call_unchecked: what it does to the VM, in order
call_unchecked == <<"ensure_slots", "set_slots", "set_slot", "wrenCall">>

\* mutant: the producer hands every future the handle it made first
get_first_handle(held) == 1

\* get_slot_handle_unchecked(2): wrenGetSlotHandle makes a new handle for
\* the value in the slot at each call; held is the handles made so far
get_slot_handle(held) ==
    1 + Cardinality({t \in DOMAIN held : held[t] # None})

\* mutant: resume1 is released twice and resume2 never
SchedulerDropResume1Twice ==
    <<"class", "resume1", "resume1", "resume_error", "resume_waiting",
      "has_next", "run_next_scheduled">>

\* impl Drop for Scheduler: the release_handle_unchecked calls, in order
SchedulerDrop ==
    <<"class", "resume1", "resume2", "resume_error", "resume_waiting",
      "has_next", "run_next_scheduled">>

\* the release counts after the Scheduler of generation g was dropped
Released(rel, g) ==
    [rel EXCEPT ![g] =
        [h \in SchedulerHandles |->
            @[h] + Cardinality({i \in DOMAIN SchedulerDrop : SchedulerDrop[i] = h})]]

\* dropping a Vm: drop() runs first (wrenFreeVM), then the fields are
\* dropped; _user_data owns the Scheduler, whose drop releases its handles
VmDrop == <<"wrenFreeVM">> \o SchedulerDrop

\* the futures still in a Scheduler's queue are dropped with it
DropQueued(st, q) ==
    [t \in Tasks |->
        IF \E i \in DOMAIN q : q[i] = t THEN "dropped" ELSE st[t]]

\* ------------------------------------------------------------------ value.rs: slots

MaxDepth == 2   \* deepest Vec nesting of an argument
MaxLen == 2     \* longest Vec of an argument

\* a Rust type as the list of its constructors: <<"Vec", "Vec", "f64">>
\* is Vec<Vec<f64>>
RECURSIVE VecTypes(_, _)
VecTypes(scalars, depth) ==
    IF depth = 0 THEN {<<s>> : s \in scalars}
    ELSE {<<"Vec">> \o T : T \in VecTypes(scalars, depth - 1)}

\* the types of the arguments sent, and the types values are read as
ArgTypes == UNION {VecTypes({"f64"}, d) : d \in 0..MaxDepth}
ReadTypes == UNION {VecTypes({"f64", "bool"}, d) : d \in 0..MaxDepth}
ArgTuples == UNION {[1..n -> ArgTypes] : n \in 0..MaxArgs}

\* a Wren value as a slot holds it; a list is a reference into the heap
WrenValue(ty, n) == [ty |-> ty, n |-> n]
Null == WrenValue("Null", 0)

\* what a script can return besides a list: one value of every WrenType
ScriptValues ==
    {Null, WrenValue("Bool", 0), WrenValue("Bool", 1), WrenValue("Num", 0),
     WrenValue("Num", 1), WrenValue("String", 0), WrenValue("Map", 0),
     WrenValue("Foreign", 0), WrenValue("Unknown", 0)}

\* what an undefined list access can leave in a slot
Garbage == {Null, WrenValue("Num", 0)}

\* a Rust value: a scalar carries n, a Vec its items
RustValue(k, n, v) == [k |-> k, n |-> n, v |-> v]
NaN == RustValue("NaN", 0, <<>>)
Aborted == RustValue("aborted", 0, <<>>)
Unread == RustValue("none", 0, <<>>)

\* the slots the model keeps; more than any call reserves
SlotIndices == 0..(2 * (MaxArgs + MaxDepth))

\* the VM before a call: every slot null, nothing reserved
FreshVm ==
    [slots |-> [s \in SlotIndices |-> Null], heap |-> <<>>, ensured |-> 0,
     written |-> {}, ub |-> FALSE]

\* wrenEnsureSlots only grows the stack
ensure_slots(vm, num_slots) ==
    [vm EXCEPT !.ensured = IF num_slots > @ THEN num_slots ELSE @]

\* every wrenSetSlot* call: the slot is overwritten
wrenSetSlot(vm, slot, value) ==
    [vm EXCEPT !.slots[slot] = value, !.written = @ \cup {slot}]

wrenSetSlotNewList(vm, slot) ==
    wrenSetSlot([vm EXCEPT !.heap = Append(@, <<>>)], slot,
                WrenValue("List", Len(vm.heap) + 1))

\* wrenInsertInList(vm, slot, -1, item_slot): append; the slot must hold a list
wrenInsertInList(vm, slot, item_slot) ==
    IF vm.slots[slot].ty = "List"
    THEN [vm EXCEPT !.heap[vm.slots[slot].n] = Append(@, vm.slots[item_slot])]
    ELSE [vm EXCEPT !.ub = TRUE]

\* wrenGetListElement: the slot must hold a list and the index be inside it,
\* anything else is undefined: the element slot then holds some value g
wrenGetListElement(vm, slot, i, item_slot, g) ==
    IF vm.slots[slot].ty = "List" /\ i <= Len(vm.heap[vm.slots[slot].n])
    THEN wrenSetSlot(vm, item_slot, vm.heap[vm.slots[slot].n][i])
    ELSE [wrenSetSlot(vm, item_slot, g) EXCEPT !.ub = TRUE]

\* store_slot: the slot is made to exist; its value is kept in a handle
store_slot(vm, slot) == ensure_slots(vm, slot + 1)

\* impl Drop for SlotStorage: the kept value goes back into its slot
SlotStorageDrop(vm, slot, handle) ==
    wrenSetSlot(ensure_slots(vm, slot + 1), slot, handle)

\* mutant: the scratch slot of a list is the slot above it
item_slot_above(slot) == slot + 1

\* send_iterator_to_vm: the slot the items of the list at `slot` pass through
item_slot(slot) == IF slot = 0 THEN slot + 1 ELSE slot - 1

\* impl GetValue for Vec<T>: the slot the elements are read through
get_item_slot(slot) == IF slot = 0 THEN slot + 1 ELSE slot - 1

\* F applied to the value of x: x is evaluated once, before F
Strict(x, F(_)) == CHOOSE r \in {F(v) : v \in {x}} : TRUE

RECURSIVE set_slot(_, _, _)

\* the loop of send_iterator_to_vm from item i on; the list is kept in a
\* handle when slot = 0 and put back after each item
RECURSIVE send_items(_, _, _, _, _)
send_items(vm, items, slot, list, i) ==
    IF i > Len(items) THEN vm
    ELSE Strict(set_slot(vm, items[i], item_slot(slot)), LAMBDA sent :
         Strict(IF slot = 0 THEN wrenSetSlot(sent, slot, list) ELSE sent, LAMBDA back :
         Strict(wrenInsertInList(back, slot, item_slot(slot)), LAMBDA inserted :
         send_items(inserted, items, slot, list, i + 1))))

\* the list is made in `slot`; when slot = 0 a handle keeps the list and
\* slot 1 is stored, to be put back when the items are sent
send_iterator_to_vm(vm, items, slot) ==
    Strict(wrenSetSlotNewList(vm, slot), LAMBDA made :
    Strict(IF slot = 0 THEN store_slot(made, slot + 1) ELSE made, LAMBDA kept :
    Strict(send_items(kept, items, slot, made.slots[slot], 1), LAMBDA sent :
    IF slot = 0 THEN SlotStorageDrop(sent, slot + 1, kept.slots[slot + 1])
    ELSE sent)))

\* impl SetValue for f64 and for Vec<T>
set_slot(vm, value, slot) ==
    IF value.k = "Vec" THEN send_iterator_to_vm(vm, value.v, slot)
    ELSE wrenSetSlot(vm, slot, WrenValue("Num", value.n))

\* mutant: the number 0 reads as false
get_slot_bool_zero_false(value) ==
    CASE value.ty = "Bool" -> RustValue("bool", value.n, <<>>)
      [] value.ty = "Null" -> RustValue("bool", 0, <<>>)
      [] value.ty = "Num" /\ value.n = 0 -> RustValue("bool", 0, <<>>)
      [] OTHER -> RustValue("bool", 1, <<>>)

\* impl GetValue for bool
get_slot_bool(value) ==
    CASE value.ty = "Bool" -> RustValue("bool", value.n, <<>>)
      [] value.ty = "Null" -> RustValue("bool", 0, <<>>)
      [] OTHER -> RustValue("bool", 1, <<>>)

\* impl GetValue for f64
get_slot_f64(value) ==
    IF value.ty = "Num" THEN RustValue("f64", value.n, <<>>) ELSE NaN

RECURSIVE get_slot(_, _, _, _)

\* the loop of Vec<T>::get_slot from element i on
RECURSIVE get_items(_, _, _, _, _, _, _)
get_items(vm, T, slot, count, g, vec, i) ==
    IF i > count THEN [vm |-> vm, val |-> vec]
    ELSE Strict(wrenGetListElement(vm, slot, i, get_item_slot(slot), g), LAMBDA got :
         Strict(get_slot(got, T, get_item_slot(slot), g), LAMBDA item :
         Strict(Append(vec, item.val), LAMBDA pushed :
         get_items(item.vm, T, slot, count, g, pushed, i + 1))))

\* T::get_slot(vm, slot): the VM afterwards and the value read; g is what an
\* undefined wrenGetListElement leaves in the element slot
get_slot(vm, T, slot, g) ==
    IF T = <<"bool">> THEN [vm |-> vm, val |-> get_slot_bool(vm.slots[slot])]
    ELSE IF T = <<"f64">> THEN [vm |-> vm, val |-> get_slot_f64(vm.slots[slot])]
    ELSE Strict(IF slot = 0 THEN store_slot(vm, slot + 1) ELSE vm, LAMBDA kept :
         Strict(IF kept.slots[slot].ty = "List"
                THEN get_items(kept, Tail(T), slot,
                               Len(kept.heap[kept.slots[slot].n]), g, <<>>, 1)
                ELSE [vm |-> kept, val |-> <<>>], LAMBDA read :
         [vm |-> IF slot = 0
                 THEN SlotStorageDrop(read.vm, slot + 1, kept.slots[slot + 1])
                 ELSE read.vm,
          val |-> RustValue("Vec", 0, read.val)]))

\* SetValue::REQUIRED_SLOTS: 1 for a scalar, 1 + T's for Vec<T>
RECURSIVE REQUIRED_SLOTS(_)
REQUIRED_SLOTS(T) ==
    IF Head(T) = "Vec" THEN 1 + REQUIRED_SLOTS(Tail(T)) ELSE 1

\* mutant: the smaller of the two
const_min_helper(a, b) == <<a, b>>[(IF a > b THEN 1 ELSE 0) + 1]

\* _const_max_helper: [a, b][(a < b) as usize]
const_max_helper(a, b) == <<a, b>>[(IF a < b THEN 1 ELSE 0) + 1]

\* expand_TOTAL_REQUIRED_SLOTS!(@step i, x, y...)
RECURSIVE expand_TOTAL_REQUIRED_SLOTS(_, _)
expand_TOTAL_REQUIRED_SLOTS(i, Ts) ==
    IF Len(Ts) = 1 THEN REQUIRED_SLOTS(Ts[1]) + i
    ELSE const_max_helper(REQUIRED_SLOTS(Ts[1]) + i,
                          expand_TOTAL_REQUIRED_SLOTS(i + 1, Tail(Ts)))

\* SetArgs::COUNT
COUNT(Ts) == Len(Ts)

\* SetArgs::TOTAL_REQUIRED_SLOTS of (), of &T and of the tuples
TOTAL_REQUIRED_SLOTS(Ts) ==
    CASE Len(Ts) = 0 -> 1
      [] Len(Ts) = 1 -> REQUIRED_SLOTS(Ts[1])
      [] OTHER -> expand_TOTAL_REQUIRED_SLOTS(0, Ts)

\* expand_set_slots!: argument i goes to slot i + offset, the last one first
RECURSIVE set_slots(_, _, _, _)
set_slots(vm, args, offset, i) ==
    IF i > Len(args) THEN vm
    ELSE Strict(set_slots(vm, args, offset, i + 1), LAMBDA later :
         set_slot(later, args[i], (i - 1) + offset))

\* SetArgs::set_wren_stack
set_wren_stack(vm, Ts, args, offset) ==
    Strict(ensure_slots(vm, TOTAL_REQUIRED_SLOTS(Ts) + offset), LAMBDA ensured :
    set_slots(ensured, args, offset, 1))

\* Context::call: slot_count
slot_count(Ts) == 1 + TOTAL_REQUIRED_SLOTS(Ts)

\* call_unchecked up to wrenCall: the subject is a class
send_call(vm, Ts, args) ==
    Strict(ensure_slots(vm, slot_count(Ts)), LAMBDA ensured :
    Strict(set_slots(ensured, args, 1, 1), LAMBDA sent :
    wrenSetSlot(sent, 0, WrenValue("Unknown", 0))))

\* wrenCall returning value: the API stack is the return value alone
wrenCall(vm, value) ==
    [vm EXCEPT !.slots = [s \in SlotIndices |-> IF s = 0 THEN value ELSE Null],
               !.ensured = 1]

\* the argument of type T sent at position p: every Vec has len items,
\* every f64 differs from its siblings
RECURSIVE Sample(_, _, _)
Sample(T, len, p) ==
    IF Head(T) = "Vec"
    THEN RustValue("Vec", 0, [i \in 1..len |->
                                 Sample(Tail(T), len, p * (MaxLen + 1) + i)])
    ELSE RustValue("f64", p, <<>>)

\* the value a slot holds, converted by T's reader with nothing in the way
RECURSIVE Converted(_, _, _)
Converted(T, value, heap) ==
    IF T = <<"bool">> THEN get_slot_bool(value)
    ELSE IF T = <<"f64">> THEN get_slot_f64(value)
    ELSE RustValue("Vec", 0,
            IF value.ty = "List"
            THEN [i \in 1..Len(heap[value.n]) |->
                     Converted(Tail(T), heap[value.n][i], heap)]
            ELSE <<>>)

\* ------------------------------------------------------------------ Init

\* the Scheduler as capture_methods installs it, the host outside any call
SchedulerInit ==
    /\ queue = <<>>
    /\ has_waiting_fibers = FALSE
    /\ pc = "idle"
    /\ next = None
    /\ handles = <<>>
    /\ idx = 1
    /\ exec = "main"
    /\ current = None
    /\ nTasks = 0
    /\ status = [t \in Tasks |-> "none"]
    /\ delay = [t \in Tasks |-> 0]
    /\ kind = [t \in Tasks |-> "resume"]
    /\ remaining = [t \in Tasks |-> 0]
    /\ parent = [t \in Tasks |-> 0]
    /\ pass = [t \in Tasks |-> 0]
    /\ resumeCount = [t \in Tasks |-> 0]
    /\ order = <<>>
    /\ fiberLog = [t \in Tasks |-> <<>>]
    /\ calledMethod = [t \in Tasks |-> "none"]
    /\ vmActive = {}
    /\ hostOp = "none"
    /\ runtimeErr = FALSE
    /\ fiberHandle = [t \in Tasks |-> None]
    /\ resumeErrResult = [t \in Tasks |-> FALSE]
    /\ vmState = "live"
    /\ captures = 1
    /\ schedReleased = [g \in Generations |-> [h \in SchedulerHandles |-> 0]]
    /\ teardownLog = <<>>

\* no CallHandle made and no Context::call issued
CallInit ==
    /\ argument_count = NoHandle
    /\ args_count = 0
    /\ callLog = <<>>
    /\ callResult = "none"

\* no argument sent and no slot read
SlotsIdle ==
    /\ argTypes = <<>>
    /\ vecLen = 0
    /\ argOffset = 0
    /\ reserved = 0
    /\ rawContext = FreshVm
    /\ slotPc = "args"
    /\ readType = <<>>
    /\ readSlot = 0
    /\ readValue = Unread

Init ==
    /\ SchedulerInit
    /\ signature = <<>>
    /\ CallInit
    /\ SlotsIdle

\* the signatures handed to new_from_signature
ArgInit ==
    /\ SchedulerInit
    /\ signature \in Signatures
    /\ CallInit
    /\ SlotsIdle

\* the argument tuples handed to set_wren_stack and to call
SlotInit ==
    /\ SchedulerInit
    /\ signature = <<>>
    /\ CallInit
    /\ argTypes \in ArgTuples
    /\ vecLen \in 0..MaxLen
    /\ argOffset = 0
    /\ reserved = 0
    /\ rawContext = FreshVm
    /\ slotPc = "args"
    /\ readType = <<>>
    /\ readSlot = 0
    /\ readValue = Unread

HostFree == pc \in {"idle", "done"} /\ vmActive = {} /\ vmState = "live"

\* the caller of a foreign method: the VM call that is running
Caller == IF current \in vmActive THEN current ELSE HostCaller

\* ------------------------------------------- host-level calls into the VM

\* Vm::interpret: the host runs script source; the script may call foreign
\* methods until the call returns
interpret ==
    /\ HostFree
    /\ pc' = "idle"
    /\ vmActive' = {HostCaller}
    /\ hostOp' = "interpret"
    /\ UNCHANGED <<extVars, schedVars, next, handles, idx, exec, current, taskVars, obsVars>>

\* Scheduler::resume_waiting: clears the flag, then _resume(resume_waiting)
resume_waiting ==
    /\ HostFree
    /\ has_waiting_fibers' = FALSE
    /\ pc' = "idle"
    /\ vmActive' = {HostCaller}
    /\ hostOp' = "resume_waiting"
    /\ UNCHANGED <<extVars, queue, next, handles, idx, exec, current, taskVars, obsVars>>

\* Scheduler::has_next: _resume(has_next)
has_next ==
    /\ HostFree
    /\ pc' = "idle"
    /\ vmActive' = {HostCaller}
    /\ hostOp' = "has_next"
    /\ UNCHANGED <<extVars, schedVars, next, handles, idx, exec, current, taskVars, obsVars>>

\* Scheduler::run_next_scheduled: _resume(run_next_scheduled)
run_next_scheduled ==
    /\ HostFree
    /\ pc' = "idle"
    /\ vmActive' = {HostCaller}
    /\ hostOp' = "run_next_scheduled"
    /\ UNCHANGED <<extVars, schedVars, next, handles, idx, exec, current, taskVars, obsVars>>

\* the host-level VM call returns: interpret hands the Result back, the
\* Scheduler's calls go through _resume, which panics on a runtime error
host_call_returns(code) ==
    /\ HostCaller \in vmActive
    /\ vmActive' = vmActive \ {HostCaller}
    /\ hostOp' = "none"
    /\ IF hostOp # "interpret" /\ ResumePanics(code)
       THEN pc' = "panicked"
       ELSE pc' = pc
    /\ runtimeErr' = (runtimeErr \/
                      (hostOp # "interpret" /\ new_from_result(code) = "Runtime"))
    /\ UNCHANGED <<extVars, schedVars, next, handles, idx, exec, current, taskVars,
                   resumeCount, order, fiberLog, calledMethod>>

\* ------------------------------------- foreign methods, called by scripts

\* mutant: the sleep is created, and its timer started, when the task is registered
start_eager(ms, k) ==
    /\ vmActive # {}
    /\ nTasks < MaxTasks
    /\ LET t == nTasks + 1 IN
       /\ nTasks' = t
       /\ queue' = schedule_task(queue, t)
       /\ status' = [status EXCEPT ![t] = "sleeping"]
       /\ remaining' = [remaining EXCEPT ![t] = ms]
       /\ delay' = [delay EXCEPT ![t] = ms]
       /\ kind' = [kind EXCEPT ![t] = k]
       /\ parent' = [parent EXCEPT ![t] = Caller]
       /\ fiberHandle' = [fiberHandle EXCEPT ![t] = get_slot_handle(fiberHandle)]
    /\ UNCHANGED <<lifeVars, callVars, slotVars, resultVars, has_waiting_fibers, loopVars, pass, obsVars, vmVars>>

\* mutant: a task registered while the loop awaits is spawned at once, into
\* the pass in progress
start_spawned(ms, k) ==
    /\ vmActive # {}
    /\ nTasks < MaxTasks
    /\ LET t == nTasks + 1 IN
       /\ nTasks' = t
       /\ IF pc = "await"
          THEN /\ queue' = queue
               /\ handles' = Append(handles, t)
               /\ status' = [status EXCEPT ![t] = "spawned"]
               /\ pass' = [pass EXCEPT ![t] = handles[1]]
          ELSE /\ queue' = schedule_task(queue, t)
               /\ handles' = handles
               /\ status' = [status EXCEPT ![t] = "queued"]
               /\ pass' = pass
       /\ delay' = [delay EXCEPT ![t] = ms]
       /\ kind' = [kind EXCEPT ![t] = k]
       /\ parent' = [parent EXCEPT ![t] = Caller]
       /\ fiberHandle' = [fiberHandle EXCEPT ![t] = get_slot_handle(fiberHandle)]
    /\ UNCHANGED <<lifeVars, callVars, slotVars, resultVars, has_waiting_fibers, pc, next, idx, exec, current,
                   remaining, obsVars, vmVars>>

\* a task producer (timer.rs start): reads ms and the fiber handle from the
\* slots, builds the future and hands it to schedule_task.  k is the resume
\* operation the future's continuation calls (start calls resume).
start(ms, k) ==
    /\ vmActive # {}
    /\ nTasks < MaxTasks
    /\ LET t == nTasks + 1 IN
       /\ nTasks' = t
       /\ queue' = schedule_task(queue, t)
       /\ status' = [status EXCEPT ![t] = "queued"]
       /\ delay' = [delay EXCEPT ![t] = ms]
       /\ kind' = [kind EXCEPT ![t] = k]
       /\ parent' = [parent EXCEPT ![t] = Caller]
       /\ fiberHandle' = [fiberHandle EXCEPT ![t] = get_slot_handle(fiberHandle)]
    /\ UNCHANGED <<lifeVars, callVars, slotVars, resultVars, has_waiting_fibers, loopVars, remaining, pass, obsVars, vmVars>>

\* awaitAll_(): Scheduler::await_all
await_all ==
    /\ vmActive # {}
    /\ has_waiting_fibers' = TRUE
    /\ UNCHANGED <<extVars, queue, loopVars, taskVars, obsVars, vmVars>>

\* mutant: the new Scheduler keeps the flag of the one it replaces
capture_methods_keeps_flag ==
    /\ vmActive # {}
    /\ captures < MaxCaptures
    /\ captures' = captures + 1
    /\ schedReleased' = Released(schedReleased, captures)
    /\ queue' = <<>>
    /\ status' = DropQueued(status, queue)
    /\ UNCHANGED <<has_waiting_fibers, vmState, teardownLog, callVars, handleVars, slotVars, resultVars, loopVars,
                   nTasks, delay, kind, remaining, parent, pass, obsVars, vmVars>>

\* mutant: the new Scheduler takes over the queue of the one it replaces
capture_methods_keeps_queue ==
    /\ vmActive # {}
    /\ captures < MaxCaptures
    /\ captures' = captures + 1
    /\ schedReleased' = Released(schedReleased, captures)
    /\ has_waiting_fibers' = FALSE
    /\ UNCHANGED <<queue, vmState, teardownLog, callVars, handleVars, slotVars, resultVars,
                   loopVars, taskVars, obsVars, vmVars>>

\* captureMethods_(): capture_methods.  `user_data.scheduler = Some(..)` drops
\* the Scheduler it replaces and installs one with an empty queue and a
\* false flag.
capture_methods ==
    /\ vmActive # {}
    /\ captures < MaxCaptures
    /\ captures' = captures + 1
    /\ schedReleased' = Released(schedReleased, captures)
    /\ queue' = <<>>
    /\ status' = DropQueued(status, queue)
    /\ has_waiting_fibers' = FALSE
    /\ UNCHANGED <<vmState, teardownLog, callVars, handleVars, slotVars, resultVars, loopVars,
                   nTasks, delay, kind, remaining, parent, pass, obsVars, vmVars>>

\* the host drops the Vm: impl Drop for Vm, then the user data
drop_vm ==
    /\ HostFree
    /\ vmState' = "freed"
    /\ teardownLog' = VmDrop
    /\ schedReleased' = Released(schedReleased, captures)
    /\ queue' = <<>>
    /\ status' = DropQueued(status, queue)
    /\ UNCHANGED <<has_waiting_fibers, captures, callVars, handleVars, slotVars, resultVars, loopVars,
                   nTasks, delay, kind, remaining, parent, pass, obsVars, vmVars>>

\* ------------------------------------------------- call handles and calls

\* CallHandle::new_from_signature
new_from_signature ==
    /\ argument_count = NoHandle
    /\ argument_count' = signature_argument_count(signature)
    /\ UNCHANGED <<signature, args_count, callLog, callResult, lifeVars, handleVars, slotVars, resultVars, schedVars,
                   loopVars, taskVars, obsVars, vmVars>>

\* Context::call with n arguments on the CallHandle; code is what wrenCall
\* returns when the call is made
call(n, code) ==
    /\ argument_count # NoHandle
    /\ args_count' = n
    /\ IF arity_matches(argument_count, n)
       THEN /\ callLog' = call_unchecked
            /\ callResult' = new_from_result(code)
       ELSE /\ callLog' = <<>>
            /\ callResult' = "IncorrectNumberOfArgsPassed"
    /\ UNCHANGED <<signature, argument_count, lifeVars, handleVars, slotVars, resultVars, schedVars,
                   loopVars, taskVars, obsVars, vmVars>>

\* ----------------------------------------------------------- run_async_loop

\* entry: `let mut handles = vec![]; let mut next = self.next_item();`
run_async_loop ==
    /\ HostFree
    /\ handles' = <<>>
    /\ next' = next_item(queue).item
    /\ queue' = next_item(queue).rest
    /\ pc' = "spawn"
    /\ exec' = "main"
    /\ idx' = 1
    /\ UNCHANGED <<extVars, has_waiting_fibers, current, taskVars, obsVars, vmVars>>

\* `while let Some(future) = next { handles.push(spawn_local(future)); next = self.next_item(); }`
loop_spawn ==
    /\ pc = "spawn"
    /\ next # None
    /\ handles' = Append(handles, next)
    /\ status' = [status EXCEPT ![next] = "spawned"]
    /\ pass' = [pass EXCEPT ![next] = handles'[1]]
    /\ next' = next_item(queue).item
    /\ queue' = next_item(queue).rest
    /\ UNCHANGED <<extVars, has_waiting_fibers, pc, idx, exec, current, nTasks, delay, kind,
                   remaining, parent, obsVars, vmVars>>

\* mutant: `if let` for `while let`, the spawn phase may end with tasks left
loop_spawn_done_early ==
    /\ pc = "spawn"
    /\ handles # <<>>
    /\ pc' = "check"
    /\ UNCHANGED <<extVars, schedVars, next, handles, idx, exec, current, taskVars, obsVars, vmVars>>

\* the while loop ends on None
loop_spawn_done ==
    /\ pc = "spawn"
    /\ next = None
    /\ pc' = "check"
    /\ UNCHANGED <<extVars, schedVars, next, handles, idx, exec, current, taskVars, obsVars, vmVars>>

\* `if handles.is_empty() { break; }`, then the for loop starts
loop_check ==
    /\ pc = "check"
    /\ IF LoopBreaks(handles)
       THEN /\ pc' = "done"
            /\ idx' = idx
       ELSE /\ pc' = "await"
            /\ idx' = 1
    /\ UNCHANGED <<extVars, schedVars, next, handles, exec, current, taskVars, obsVars, vmVars>>

\* `handle.await.unwrap()`: Ok moves on, Err(JoinError) of a panicked task
\* panics, a pending handle yields to the executor
loop_await ==
    /\ pc = "await"
    /\ exec = "main"
    /\ idx <= Len(handles)
    /\ LET h == handles[idx] IN
       CASE status[h] = "finished" ->
                /\ idx' = idx + 1
                /\ UNCHANGED <<pc, exec>>
         [] status[h] = "panicked" ->
                /\ pc' = "panicked"
                /\ UNCHANGED <<idx, exec>>
         [] OTHER ->
                /\ exec' = "sched"
                /\ UNCHANGED <<pc, idx>>
    /\ UNCHANGED <<extVars, schedVars, next, handles, current, taskVars, obsVars, vmVars>>

\* mutant: the end of a pass lowers the barrier flag
loop_clear_lowers_flag ==
    /\ pc = "await"
    /\ exec = "main"
    /\ idx > Len(handles)
    /\ handles' = <<>>
    /\ next' = NextAfterPass(queue).item
    /\ queue' = NextAfterPass(queue).rest
    /\ pc' = "spawn"
    /\ idx' = 1
    /\ has_waiting_fibers' = FALSE
    /\ UNCHANGED <<extVars, exec, current, taskVars, obsVars, vmVars>>

\* `handles.clear(); next = self.next_item();` and back to the top of the loop
loop_clear ==
    /\ pc = "await"
    /\ exec = "main"
    /\ idx > Len(handles)
    /\ handles' = <<>>
    /\ next' = NextAfterPass(queue).item
    /\ queue' = NextAfterPass(queue).rest
    /\ pc' = "spawn"
    /\ idx' = 1
    /\ UNCHANGED <<extVars, has_waiting_fibers, exec, current, taskVars, obsVars, vmVars>>

\* ----------------------------------------------- the LocalSet's executor

\* mutant: a future is only driven once the loop awaits it (no spawn_local)
CanFirstPollWhenAwaited(t) ==
    status[t] = "spawned" /\ idx <= Len(handles) /\ handles[idx] = t

\* a spawned task that has not been polled yet
CanFirstPoll(t) == status[t] = "spawned"

\* mutant: a sleep is over as soon as its timer is registered
TimerFiredAtOnce(t) == status[t] = "sleeping"

\* Duration::from_secs_f64(ms / 1000.0) panics unless its argument is
\* finite and not negative
ValidDuration(ms) == ms >= 0

\* a task whose sleep has elapsed
TimerFired(t) == status[t] = "sleeping" /\ remaining[t] = 0

\* the join handle the main future waits on is complete
MainWoken ==
    /\ idx <= Len(handles)
    /\ status[handles[idx]] \in {"finished", "panicked"}

\* first poll of a task's future: `sleep(Duration::from_secs_f64(ms / 1000.0))`
\* registers its timer and the future is pending; from_secs_f64 panics on a
\* value it does not accept, and the panic becomes the Err of the join handle
task_first_poll(t) ==
    /\ pc = "await"
    /\ ExecutorFree(exec)
    /\ CanFirstPoll(t)
    /\ IF ValidDuration(delay[t])
       THEN /\ status' = [status EXCEPT ![t] = "sleeping"]
            /\ remaining' = [remaining EXCEPT ![t] = delay[t]]
       ELSE /\ status' = [status EXCEPT ![t] = "panicked"]
            /\ remaining' = remaining
    /\ UNCHANGED <<extVars, schedVars, loopVars, nTasks, delay, kind, parent, pass, obsVars, vmVars>>

\* no unit is runnable: the executor parks on the timer driver and time passes
timer_tick ==
    /\ pc = "await"
    /\ exec = "sched"
    /\ ~MainWoken
    /\ \A t \in Tasks : ~CanFirstPoll(t) /\ ~TimerFired(t)
    /\ remaining' = [t \in Tasks |->
                        IF status[t] = "sleeping" THEN remaining[t] - 1 ELSE remaining[t]]
    /\ UNCHANGED <<extVars, schedVars, loopVars, nTasks, status, delay, kind, parent, pass,
                   obsVars, vmVars>>

\* the sleep is over: the future runs on into its continuation, which calls
\* resume / resume_with_arg / resume_error: set_wren_stack, release the fiber
\* handle, then _resume enters the VM
continuation(t) ==
    /\ pc = "await"
    /\ ExecutorFree(exec)
    /\ TimerFired(t)
    /\ exec' = "task"
    /\ current' = t
    /\ status' = [status EXCEPT ![t] = "resuming"]
    /\ resumeCount' = [resumeCount EXCEPT ![t] = @ + 1]
    /\ order' = Append(order, t)
    /\ fiberLog' = [fiberLog EXCEPT ![t] = ResumeHandleEvents(@)]
    /\ calledMethod' = [calledMethod EXCEPT ![t] = ResumeMethod(kind[t])]
    /\ vmActive' = vmActive \cup {t}
    /\ UNCHANGED <<extVars, schedVars, pc, next, handles, idx, nTasks, delay, kind, remaining,
                   parent, pass, hostOp, runtimeErr>>

\* the VM call of a continuation returns; _resume panics on a runtime error,
\* and a panic inside a spawned task becomes the Err of its join handle
resume_returns(t, code) ==
    /\ t \in vmActive
    /\ t \in Tasks
    /\ vmActive' = vmActive \ {t}
    /\ status' = [status EXCEPT ![t] =
                     IF ResumePanics(code) THEN "panicked" ELSE "finished"]
    /\ runtimeErr' = (runtimeErr \/ new_from_result(code) = "Runtime")
    /\ exec' = "sched"
    /\ current' = None
    /\ UNCHANGED <<lifeVars, callVars, handleVars, slotVars, schedVars, pc, next, handles, idx, nTasks, delay, kind, remaining,
                   parent, pass, resumeCount, order, fiberLog, calledMethod, hostOp>>

\* the same step with the result of the VM call kept for observation
continuation_returns_observed(t, code) ==
    /\ resume_returns(t, code)
    /\ resumeErrResult' = [resumeErrResult EXCEPT ![t] =
                            new_from_result(code) \in {"Compile", "Unknown"}]

continuation_returns(t, code) ==
    /\ resume_returns(t, code)
    /\ UNCHANGED resultVars

\* the main future is polled again once the handle it awaits is complete
main_wake ==
    /\ pc = "await"
    /\ exec = "sched"
    /\ MainWoken
    /\ exec' = "main"
    /\ UNCHANGED <<extVars, schedVars, pc, next, handles, idx, current, taskVars, obsVars, vmVars>>

\* ------------------------------------------------------------------ Next

LoopNext ==
    \/ loop_spawn
    \/ loop_spawn_done
    \/ loop_check
    \/ loop_await
    \/ loop_clear
    \/ \E t \in Tasks : task_first_poll(t)
    \/ timer_tick
    \/ \E t \in Tasks : continuation(t)
    \/ \E t \in Tasks, code \in ResultCodes : continuation_returns(t, code)
    \/ main_wake

Next ==
    \/ interpret
    \/ resume_waiting
    \/ has_next
    \/ run_next_scheduled
    \/ \E code \in ResultCodes : host_call_returns(code)
    \/ \E ms \in Delays, k \in Kinds : start(ms, k)
    \/ await_all
    \/ run_async_loop
    \/ LoopNext

Spec == Init /\ [][Next]_vars

\* the executor keeps polling runnable units, the timer driver keeps time
\* moving and a VM call made by a continuation returns
FairSpec == Spec /\ WF_vars(LoopNext)

\* the program with the result of every resume's VM call observed
ResultNext ==
    \/ interpret
    \/ resume_waiting
    \/ has_next
    \/ run_next_scheduled
    \/ \E code \in ResultCodes : host_call_returns(code)
    \/ \E ms \in Delays, k \in Kinds : start(ms, k)
    \/ await_all
    \/ run_async_loop
    \/ loop_spawn
    \/ loop_spawn_done
    \/ loop_check
    \/ loop_await
    \/ loop_clear
    \/ \E t \in Tasks : task_first_poll(t)
    \/ timer_tick
    \/ \E t \in Tasks : continuation(t)
    \/ \E t \in Tasks, code \in ResultCodes : continuation_returns_observed(t, code)
    \/ main_wake
ResultSpec == Init /\ [][ResultNext]_vars

\* the program with scripts that pass any number to startTimer_(_,_)
TimerNext == Next \/ \E ms \in MalformedDurations, k \in Kinds : start(ms, k)
TimerSpec == Init /\ [][TimerNext]_vars

\* call handles made from signatures and the calls made through them
ArgNext ==
    \/ new_from_signature
    \/ \E n \in ArgCounts, code \in ResultCodes : call(n, code)
ArgSpec == ArgInit /\ [][ArgNext]_vars

\* ------------------------------------------------------------------ sending and reading values

nonSlotVars ==
    <<schedVars, loopVars, taskVars, obsVars, vmVars, lifeVars, callVars,
      handleVars, resultVars>>

\* the argument tuple: the values of the types drawn
Args == [i \in 1..Len(argTypes) |-> Sample(argTypes[i], vecLen, i)]

\* RawContext::set_stack: args.set_wren_stack(self, 0)
set_stack ==
    /\ slotPc = "args"
    /\ rawContext' = set_wren_stack(rawContext, argTypes, Args, 0)
    /\ argOffset' = 0
    /\ reserved' = TOTAL_REQUIRED_SLOTS(argTypes) + 0
    /\ slotPc' = "set"
    /\ UNCHANGED <<nonSlotVars, argTypes, vecLen, readType, readSlot, readValue>>

\* Context::call with the argument tuple, up to wrenCall
call_sends ==
    /\ slotPc = "args"
    /\ rawContext' = send_call(rawContext, argTypes, Args)
    /\ argOffset' = 1
    /\ reserved' = slot_count(argTypes)
    /\ slotPc' = "set"
    /\ UNCHANGED <<nonSlotVars, argTypes, vecLen, readType, readSlot, readValue>>

\* wrenCall: the method returns one of its arguments (returnValue(value))
\* or a value of the script
call_returns(value) ==
    /\ slotPc = "set"
    /\ argOffset = 1
    /\ rawContext' = wrenCall(rawContext, value)
    /\ slotPc' = "returned"
    /\ UNCHANGED <<nonSlotVars, argTypes, vecLen, argOffset, reserved, readType, readSlot, readValue>>

\* G::get_slot(vm, slot): the return value (slot 0) after a call, or a slot
\* the sender filled; an undefined list access leaves g or aborts
get_value(G, slot, g, abort) ==
    /\ slotPc \in {"set", "returned"}
    /\ slot < rawContext.ensured
    /\ LET read == get_slot(rawContext, G, slot, g)
       IN  /\ rawContext' = read.vm
           /\ readValue' = IF read.vm.ub /\ abort THEN Aborted ELSE read.val
    /\ readType' = G
    /\ readSlot' = slot
    /\ slotPc' = "read"
    /\ UNCHANGED <<nonSlotVars, argTypes, vecLen, argOffset, reserved>>

SlotNext ==
    \/ set_stack
    \/ call_sends
    \/ \E value \in ScriptValues \cup {rawContext.slots[k] : k \in 1..COUNT(argTypes)} :
           call_returns(value)
    \/ \E G \in ReadTypes, slot \in SlotIndices, g \in Garbage, abort \in BOOLEAN :
           get_value(G, slot, g, abort)

SlotSpec == SlotInit /\ [][SlotNext]_vars

\* the program with the Scheduler's whole life: re-installation and teardown
LifeNext == Next \/ capture_methods \/ drop_vm
LifeSpec == Init /\ [][LifeNext]_vars

\* ---------------------------------------------------------------- claims

Registered == 1..nTasks
InLoop == pc \in {"spawn", "check", "await"}
Invoked(t) == resumeCount[t] > 0
Pos(t) == CHOOSE i \in 1..Len(order) : order[i] = t
Outstanding(t) == status[t] \in {"queued", "spawned", "sleeping", "resuming"}

C2_CompletionOrder ==
    \A t, u \in Registered :
        (pass[t] # 0 /\ pass[t] = pass[u] /\ delay[t] < delay[u] /\ Invoked(u))
            => (Invoked(t) /\ Pos(t) < Pos(u))

\* the task scheduled first has the longer delay and is resumed second
C2_Witness ==
    \E t, u \in Registered :
        /\ t < u /\ pass[t] = pass[u] /\ pass[t] # 0
        /\ delay[u] < delay[t]
        /\ Invoked(t) /\ Invoked(u) /\ Pos(u) < Pos(t)

C4_BarrierResumedByLoop ==
    pc = "done" => ~has_waiting_fibers

\* C5: once the continuation of a task has run, its fiber handle has been
\* written to the slot and then released, exactly once, also when the VM call
\* failed; no handle is released twice or used after its release.
C5_HandleReleasedOnce ==
    \A t \in Tasks :
        /\ status[t] \in {"resuming", "finished", "panicked"}
              => fiberLog[t] = <<"use", "release">>
        /\ Cardinality({i \in 1..Len(fiberLog[t]) : fiberLog[t][i] = "release"}) <= 1
        /\ \A i, j \in 1..Len(fiberLog[t]) :
              (fiberLog[t][i] = "release" /\ fiberLog[t][j] = "use") => j < i

\* a continuation's VM call failed and its handle was still released
C5_Witness ==
    \E t \in Tasks : status[t] = "panicked" /\ fiberLog[t] = <<"use", "release">>

\* C6: at most one VM call is in progress at any instant, and the task whose
\* continuation is in the VM is the one unit the executor is polling.
C6_OneVmEntry ==
    /\ Cardinality(vmActive) <= 1
    /\ Cardinality({t \in Tasks : status[t] = "resuming"}) <= 1
    /\ \A t \in Tasks : status[t] = "resuming" =>
          (exec = "task" /\ current = t /\ vmActive = {t})

\* a continuation is in the VM while the sleep of another task is already over
C6_Witness ==
    \E t, u \in Tasks :
        t # u /\ status[t] = "resuming" /\ t \in vmActive /\ TimerFired(u)

\* C7: after the VM call of a resume operation has returned a runtime error
\* the host never gets back to normal operation: run_async_loop does not
\* return, and the host ends in a panic.
C7_RuntimeErrorFatal ==
    /\ [](runtimeErr => pc \in {"await", "panicked"})
    /\ (runtimeErr ~> pc = "panicked")

\* a task's resume failed while the loop was waiting, and the host panicked
C7_Witness ==
    /\ pc = "panicked"
    /\ \E t \in Tasks : status[t] = "panicked"

\* C8: a continuation that calls resume_error enters the VM through the
\* resumeError_(_,_) call handle.
C8_ResumeErrorEntryPoint ==
    \A t \in Tasks :
        (kind[t] = "resume_error" /\ calledMethod[t] # "none")
            => calledMethod[t] = "resume_error"

\* C9: the loop exits when a pass finds nothing spawned, and every call of
\* run_async_loop ends, by returning or by the panic of a fatal resume.
C9_Terminates ==
    /\ [][(pc = "check" /\ handles = <<>>) => pc' = "done"]_vars
    /\ (InLoop ~> pc \in {"done", "panicked"})

\* a call has returned after two passes
C9_Witness ==
    /\ pc = "done"
    /\ \E t, u \in Registered : pass[t] # 0 /\ pass[u] # 0 /\ pass[t] # pass[u]

\* C10: a step that registers a task puts it at the front of the queue and
\* leaves the rest of the queue, the barrier flag, the VM, the run loop and
\* every other task as they were; the task is queued, not started, and a
\* queued task has no timer running and has not been resumed.
C10_ScheduleTaskFrame ==
    /\ [][nTasks' # nTasks =>
            /\ nTasks' = nTasks + 1
            /\ Len(queue') = Len(queue) + 1
            /\ queue'[1] = nTasks'
            /\ \A i \in 1..Len(queue) : queue'[i + 1] = queue[i]
            /\ has_waiting_fibers' = has_waiting_fibers
            /\ vmActive' = vmActive /\ calledMethod' = calledMethod
            /\ loopVars' = loopVars
            /\ status'[nTasks'] = "queued"
            /\ \A t \in Registered : status'[t] = status[t]
            /\ remaining' = remaining
            /\ resumeCount' = resumeCount /\ order' = order]_vars
    /\ [](\A t \in Tasks : status[t] = "queued" =>
            /\ remaining[t] = 0 /\ resumeCount[t] = 0 /\ pass[t] = 0
            /\ (t = next \/ \E i \in 1..Len(queue) : queue[i] = t))

\* a task registered by a continuation is still queued, its timer not
\* started, after its registrar has finished and while the pass goes on
C10_Witness ==
    \E t, u \in Registered :
        /\ status[t] = "queued" /\ parent[t] = u /\ status[u] = "finished"
        /\ pc = "await" /\ delay[t] > 0 /\ remaining[t] = 0

\* C11: the barrier flag is raised only by a step that changes nothing else
\* (await_all: queue, tasks, run loop, VM and resumed fibers as they were),
\* is lowered only by resume_waiting or by capture_methods installing a new
\* Scheduler, and is false after each of these two.
C11_BarrierFlag ==
    [][/\ (~has_waiting_fibers /\ has_waiting_fibers') =>
              UNCHANGED <<queue, loopVars, taskVars, obsVars, vmVars, extVars>>
       /\ (has_waiting_fibers /\ ~has_waiting_fibers') =>
              \/ hostOp # "resume_waiting" /\ hostOp' = "resume_waiting"
              \/ captures' = captures + 1
       /\ (hostOp # "resume_waiting" /\ hostOp' = "resume_waiting") =>
              ~has_waiting_fibers'
       /\ captures' # captures => ~has_waiting_fibers']_vars

\* await_all was called on a Scheduler that capture_methods re-installed,
\* while tasks are registered and the run loop is awaiting
C11_Witness ==
    /\ has_waiting_fibers /\ captures = MaxCaptures
    /\ pc = "await" /\ nTasks > 0

\* C12: resume_waiting, the call that clears the barrier flag, is in progress
\* only while run_async_loop is active.
C12_ClearedInsideLoop ==
    hostOp = "resume_waiting" => InLoop

\* C13: in the calls issued against the VM when a Vm is dropped, every
\* handle release comes before wrenFreeVM.
C13_ReleaseBeforeFree ==
    \A i, j \in DOMAIN teardownLog :
        (teardownLog[i] = "wrenFreeVM" /\ teardownLog[j] # "wrenFreeVM") => j < i

\* whether the Scheduler of generation g has been dropped: replaced by a
\* later capture_methods, or dropped with the Vm
TornDown(g) == g < captures \/ (g = captures /\ vmState = "freed")

\* C14: each of the seven handles of a Scheduler has been released once if
\* the Scheduler was torn down and not at all otherwise; in particular no
\* resume, has_next, run_next_scheduled or run_async_loop step releases one.
C14_SchedulerHandlesReleasedOnce ==
    \A g \in Generations : \A h \in SchedulerHandles :
        schedReleased[g][h] = IF TornDown(g) THEN 1 ELSE 0

\* a Vm dropped after run_async_loop resumed a fiber through the second
\* Scheduler installed: both Schedulers have been torn down
C14_Witness ==
    /\ vmState = "freed" /\ captures = MaxCaptures
    /\ \E t \in Registered : Invoked(t)
    /\ \A g \in Generations : schedReleased[g]["resume1"] = 1

\* C15: a task is registered only for a duration the sleep accepts: a
\* malformed duration is rejected by the producer and no task is queued,
\* started or failed for it.
C15_MalformedRejected ==
    \A t \in Tasks : status[t] # "none" => ValidDuration(delay[t])

\* C16: a step that registers a task registers one, resumes no fiber and
\* leaves the caller inside its VM call and the run loop where it was; a
\* fiber is resumed only by its own task, polled by the executor while
\* run_async_loop awaits, after the task's sleep ran for its whole delay.
C16_TimerProducer ==
    /\ [][nTasks' # nTasks =>
            /\ nTasks' = nTasks + 1
            /\ Len(queue') = Len(queue) + 1
            /\ resumeCount' = resumeCount /\ fiberLog' = fiberLog
            /\ vmActive' = vmActive /\ pc' = pc /\ exec' = exec]_vars
    /\ [][\A t \in Tasks : resumeCount'[t] # resumeCount[t] =>
            /\ pc = "await" /\ pc' = "await"
            /\ status[t] = "sleeping" /\ remaining[t] = 0
            /\ exec = "sched" /\ exec' = "task" /\ current' = t
            /\ vmActive' = vmActive \cup {t}]_vars

\* a fiber whose timer had a delay to wait for has been resumed
C16_Witness ==
    \E t \in Registered :
        /\ Invoked(t) /\ delay[t] = MaxDelay /\ status[t] = "finished"

\* C17: the argument count of a call handle is the number of '_' bytes of
\* its signature that come after the first '('; underscores of the name are
\* not counted and a signature without '(' has arity 0.
C17_ArityFromSignature ==
    argument_count # NoHandle =>
        /\ argument_count =
              Cardinality({i \in DOMAIN signature :
                              /\ signature[i] = "_"
                              /\ \E j \in 1..(i - 1) : signature[j] = "("})
        /\ ((\A j \in DOMAIN signature : signature[j] # "(") => argument_count = 0)

\* a handle made from a signature with an underscore in the name and one
\* placeholder, such as "_(_)"
C17_Witness ==
    /\ argument_count = 1
    /\ \E i, j, k \in DOMAIN signature :
          /\ i < j /\ j < k
          /\ signature[i] = "_" /\ signature[j] = "(" /\ signature[k] = "_"

\* C18: after Context::call, if the number of arguments passed differs from
\* the handle's argument count the result is Err(IncorrectNumberOfArgsPassed)
\* and nothing was done to the VM (no slot reserved or written, no wrenCall);
\* if they are equal the call was made and the result is the VM's.
C18_ArityChecked ==
    callResult # "none" =>
        IF args_count # argument_count
        THEN callResult = "IncorrectNumberOfArgsPassed" /\ callLog = <<>>
        ELSE /\ callResult \in {"Ok", "Compile", "Runtime", "Unknown"}
             /\ callLog = <<"ensure_slots", "set_slots", "set_slot", "wrenCall">>

\* a two-argument method called with one argument
C18_Witness ==
    /\ argument_count = 2 /\ args_count = 1
    /\ callResult = "IncorrectNumberOfArgsPassed"

\* C19: a task registered by the continuation of a task of some pass is
\* spawned in a different pass, and once it is spawned (or further) every
\* task of its registrar's pass has finished: its future completed after
\* its continuation ran.
C19_NestedTasksNextPass ==
    \A t \in Registered :
        (parent[t] \in Tasks /\ pass[t] # 0) =>
            /\ pass[t] # pass[parent[t]]
            /\ \A v \in Registered :
                  pass[v] = pass[parent[t]] => status[v] = "finished"

\* a task registered by a continuation has its sleep running in a later pass
C19_Witness ==
    \E t \in Registered :
        /\ parent[t] \in Tasks /\ status[t] = "sleeping"
        /\ pass[t] = t /\ pc = "await"

\* C20: when the spawn phase of a pass is over the queue is empty, nothing
\* is left in `next` and the wait starts with an empty queue; while a
\* continuation runs, a task still queued was registered during this pass
\* by a continuation of this pass.
C20_PassTakesWholeQueue ==
    /\ [](pc = "check" => queue = <<>> /\ next = None)
    /\ [][(pc # "await" /\ pc' = "await") => queue' = <<>> /\ next' = None]_vars
    /\ [](\A t, u \in Registered :
            (status[t] = "resuming" /\ status[u] = "queued") =>
                parent[u] \in Tasks /\ pass[parent[u]] = pass[t])

\* two tasks queued before the pass were both spawned in it, and the
\* continuation of one runs
C20_Witness ==
    /\ pc = "await" /\ Len(handles) = MaxTasks
    /\ \A t \in Registered : parent[t] = HostCaller
    /\ \E t \in Registered : status[t] = "resuming"

\* C21: once the resume call of a task has failed with a runtime error (the
\* task panicked), no other continuation is invoked: every other
\* continuation that was invoked was invoked before the failed one.
C21_NoResumeAfterRuntimeError ==
    \A t, u \in Registered :
        (status[t] = "panicked" /\ u # t /\ Invoked(u)) => Pos(u) < Pos(t)

C23_QueueFifo ==
    /\ \A i, j \in DOMAIN queue : i < j => queue[i] > queue[j]
    /\ \A i, j \in DOMAIN handles : i < j => handles[i] < handles[j]
    /\ next # None =>
          /\ \A i \in DOMAIN queue : next < queue[i]
          /\ \A i \in DOMAIN handles : handles[i] < next
    /\ \A t, u \in Registered :
          (t < u /\ pass[u] # 0) => (pass[t] # 0 /\ pass[t] <= pass[u])

\* the run loop has popped the task scheduled first while the one scheduled
\* after it is still in the queue
C23_Witness ==
    /\ pc = "spawn" /\ next = 1 /\ queue = <<2>> /\ handles = <<>>

\* C24: a task whose resume got a Compile or Unknown error result from the
\* VM completes as one whose resume succeeded; a task has panicked only if
\* its resume got a Runtime result, and run_async_loop has panicked only
\* after a runtime error.
C24_OnlyRuntimeFatal ==
    /\ \A t \in Registered :
          /\ resumeErrResult[t] => status[t] = "finished"
          /\ status[t] = "panicked" => (~resumeErrResult[t] /\ runtimeErr)
    /\ pc = "panicked" => runtimeErr

\* a resume returned a Compile or Unknown error, a continuation was
\* dispatched after it and run_async_loop returned normally
C24_Witness ==
    /\ pc = "done"
    /\ \E t, u \in Registered :
          /\ resumeErrResult[t]
          /\ Invoked(u) /\ Pos(t) < Pos(u)

\* C25: a step that installs a Scheduler leaves an empty queue and a false
\* flag, drops every task that was queued and releases each handle of the
\* replaced Scheduler once; a dropped task is never started and its fiber is
\* never resumed.
C25_ReinstallDiscardsQueue ==
    /\ [][captures' # captures =>
            /\ queue' = <<>> /\ ~has_waiting_fibers'
            /\ \A i \in DOMAIN queue : status'[queue[i]] = "dropped"
            /\ \A h \in SchedulerHandles :
                  schedReleased[captures][h] = 0 /\ schedReleased'[captures][h] = 1]_vars
    /\ [](\A t \in Tasks : status[t] = "dropped" =>
            /\ resumeCount[t] = 0 /\ fiberLog[t] = <<>> /\ pass[t] = 0
            /\ t # next
            /\ \A i \in DOMAIN queue : queue[i] # t
            /\ \A i \in DOMAIN handles : handles[i] # t)
    /\ [][\A t \in Tasks : status[t] = "dropped" => status'[t] = "dropped"]_vars

\* capture_methods ran again while a task was queued; run_async_loop was
\* then called and returned without the task's fiber being resumed
C25_Witness ==
    /\ captures = MaxCaptures /\ vmState = "live" /\ pc = "done"
    /\ \E t \in Registered : status[t] = "dropped" /\ resumeCount[t] = 0

\* the part C26's two statements share: a call of run_async_loop that finds
\* the queue empty spawns nothing, goes to the check with no handles and
\* returns from there; the VM is not entered and no task changes
EmptyRunReturns ==
    /\ (pc \notin {"spawn", "check", "await"} /\ pc' = "spawn" /\ queue = <<>>) =>
          /\ next' = None /\ handles' = <<>>
          /\ vmActive' = vmActive /\ taskVars' = taskVars /\ obsVars' = obsVars
    /\ (pc = "spawn" /\ next = None) =>
          /\ pc' = "check" /\ handles' = handles
          /\ vmActive' = vmActive /\ taskVars' = taskVars /\ obsVars' = obsVars
    /\ (pc = "check" /\ handles = <<>>) =>
          /\ pc' = "done"
          /\ vmActive' = vmActive /\ taskVars' = taskVars /\ obsVars' = obsVars

SlotsNeeded(T) == 1 + Cardinality({i \in DOMAIN T : T[i] = "Vec"})

Largest(S) == CHOOSE m \in S : \A x \in S : x <= m

\* the slot of argument i once sent
ArgSlot(i) == (i - 1) + argOffset

\* C27: for an argument tuple, TOTAL_REQUIRED_SLOTS (what the sender reserves
\* above its offset) is the largest, over the positions i counted from 0, of
\* i + the slots argument i needs, a scalar needing 1 and Vec<T> one more than
\* T; (&f64, &f64) needs 2, (&Vec<Vec<f64>>, &f64) 3, (&f64, &Vec<Vec<f64>>) 4
C27_TotalRequiredSlots ==
    /\ (slotPc = "set" /\ COUNT(argTypes) >= 1) =>
           reserved - argOffset =
               Largest({(i - 1) + SlotsNeeded(argTypes[i]) : i \in DOMAIN argTypes})
    /\ TOTAL_REQUIRED_SLOTS(<< <<"f64">>, <<"f64">> >>) = 2
    /\ TOTAL_REQUIRED_SLOTS(<< <<"Vec", "Vec", "f64">>, <<"f64">> >>) = 3
    /\ TOTAL_REQUIRED_SLOTS(<< <<"f64">>, <<"Vec", "Vec", "f64">> >>) = 4

C27_Witness ==
    /\ slotPc = "set"
    /\ argTypes = << <<"f64">>, <<"Vec", "Vec", "f64">> >>
    /\ reserved - argOffset = 4

\* C28: once the arguments are sent, every slot written (scratch slots
\* included) lies below the count passed to ensure_slots, every argument's
\* slot holds that argument, and a call's subject is in slot 0
C28_WritesWithinReserved ==
    slotPc = "set" =>
        /\ \A s \in rawContext.written : s < reserved
        /\ reserved = argOffset + TOTAL_REQUIRED_SLOTS(argTypes)
        /\ ~rawContext.ub
        /\ \A i \in DOMAIN argTypes :
               Converted(argTypes[i], rawContext.slots[ArgSlot(i)], rawContext.heap)
                   = Args[i]
        /\ argOffset = 1 => rawContext.slots[0] = WrenValue("Unknown", 0)

\* a nested Vec at slot 0 followed by a second argument: slot 1 was the
\* scratch slot of the list and holds the second argument again
C28_Witness ==
    /\ slotPc = "set"
    /\ argOffset = 0
    /\ argTypes = << <<"Vec", "Vec", "f64">>, <<"f64">> >>
    /\ vecLen = MaxLen
    /\ rawContext.written = {0, 1}
    /\ rawContext.slots[1] = WrenValue("Num", 2)

C30_VecReadInOrder ==
    [][(slotPc # "read" /\ slotPc' = "read" /\ Head(readType') = "Vec") =>
           readValue' = Converted(readType', rawContext.slots[readSlot'],
                                  rawContext.heap)]_vars

====
